---- MODULE Spec2Model ----
(***************************************************************************)
(* SysTimer: a hardware-timer abstraction for AVR, SAM (Due) and ESP.      *)
(*                                                                         *)
(* The model follows src/src/SysTimer.h.  One behaviour is one build: the  *)
(* board is chosen in Init and never changes.  The main context runs the   *)
(* library calls statement by statement (variable mc), the hardware sets   *)
(* interrupt flags while a timer counts, and an interrupt handler runs on  *)
(* top of the main context (variable isr) whenever the processor can take  *)
(* the interrupt.                                                          *)
(***************************************************************************)
EXTENDS Integers, Sequences, FiniteSets, TLC

VARIABLES
    board,      \* the build configuration (fixes platform, capacity, clock)
    _index,     \* SysTimerBase::_index, the allocator counter
    timers,     \* the constructed timer objects, in construction order
    table,      \* _AVRTimerTable / _SAMTimerTable: slot -> object id, 0 = nullptr
    hw,         \* slot -> hardware timer (AVR registers, DueTimer, os_timer)
    I,          \* global interrupt enable (AVR SREG.I, SAM not PRIMASK)
    isr,        \* stack of running interrupt handlers, innermost last
    mc,         \* the library call the main context is executing
    req         \* slot -> what the application last asked of the timer (history)

vars == <<board, _index, timers, table, hw, I, isr, mc, req>>

----------------------------------------------------------------------------
(* Bounds of the model *)

\* timers constructed after the capacity of a bounded platform is used up
MaxZombies == 1
\* timers constructed on the unbounded platform
MaxESPTimers == 2
\* the invocation counter saturates here
MaxCalls == 2

----------------------------------------------------------------------------
(* Build configurations *)

\* the builds explored
Boards == {"Uno", "Due", "ESP"}

AVRBoards == {"Uno", "ProMicro", "Mega"}
SAMBoards == {"Due", "DueServo"}

\* enum class Platform, selected by the architecture #if
Platform ==
    CASE board \in AVRBoards -> "T_AVR"
      [] board \in SAMBoards -> "T_SAM"
      [] OTHER -> "T_ESP"

Platforms == {"T_ESP", "T_AVR", "T_SAM"}

SYST_MAX_TIMERS ==
    CASE board = "Uno" -> 1
      [] board = "ProMicro" -> 2
      [] board = "Mega" -> 4
      [] board = "Due" -> 9
      [] board = "DueServo" -> 5
      [] OTHER -> -1

\* clock frequency in kHz (the 3.3 V Pro Micro runs at 8 MHz)
F_CPU_kHz == IF board = "ProMicro" THEN 8000 ELSE 16000

Bounded == SYST_MAX_TIMERS # -1

\* number of hardware timers / vendor timers the build can address
NumSlots == IF Bounded THEN SYST_MAX_TIMERS ELSE MaxESPTimers
Slots == 0 .. (NumSlots - 1)

\* number of timer objects the application constructs at most
MaxObjects == IF Bounded THEN SYST_MAX_TIMERS + MaxZombies ELSE MaxESPTimers

----------------------------------------------------------------------------
(* Values *)

nullptr == "nullptr"
Funcs == {"isr1", "isr2"}
Args == {nullptr, "arg1"}
\* the (function, argument) pairs the application attaches: none, the
\* example sketch's isr1 with an argument and its isr2 with the null
\* placeholder
AttachInputs == {<<nullptr, nullptr>>, <<"isr1", "arg1">>, <<"isr2", nullptr>>}
\* requested intervals in ms: zero, one below the ESP floor, and 2^29, which is
\* above AVR's maximum and above 16 bits and whose product with 1000 is a
\* multiple of 2^32
Intervals == {0, 3, 536870912}

\* what the memory of a new object can hold where _platform lies
Indeterminate == {"T_ESP", Platform}

\* member initializers of SysTimerBase and of the derived class (_current);
\* _platform has no initializer: p is whatever the memory held
SysTimerBase(p) ==
    [_platform |-> p, _valid |-> FALSE, _armed |-> FALSE, _interval |-> 0,
     _repeating |-> FALSE, _oneshot |-> FALSE, _callback |-> nullptr,
     _callbackArg |-> nullptr, _current |-> -1]

\* the main context between two library calls.  In a call: op the function,
\* t the object, pc the next statement, fn, arg and rep the parameters, val
\* the value being returned, prev the request standing when arm was called
Idle == [op |-> "idle", t |-> 0, pc |-> "", fn |-> nullptr, arg |-> nullptr,
         rep |-> FALSE, val |-> FALSE, prev |-> "none"]

\* The history of a slot: mode is "oneshot" or "repeat" from the statement of
\* arm() that sets the mode flag, "disarmed" once a disarm() of a timer that
\* had been armed has returned, "none" before; ok tells that this arm() has
\* returned true; calls counts the callback invocations since that statement
NoRequest == [mode |-> "none", ok |-> FALSE, calls |-> 0]
Requested(slot, repeat) ==
    [req EXCEPT ![slot] = [mode |-> IF repeat THEN "repeat" ELSE "oneshot",
                           ok |-> FALSE, calls |-> 0]]
Invoked(slot) == [req EXCEPT ![slot].calls = IF @ < MaxCalls THEN @ + 1 ELSE MaxCalls]
Objects == 1 .. Len(timers)
IsValid(t) == timers[t]._valid
\* the hardware slot of object t: _current, or the object itself on ESP
SlotOf(t) == IF Platform = "T_ESP" THEN t - 1 ELSE timers[t]._current

\* the history after the call in mc has returned
Returned ==
    LET slot == SlotOf(mc.t)
        was == req[slot]
    IN  IF mc.op = "arm" /\ mc.val
        THEN [req EXCEPT ![slot].ok = TRUE]
        ELSE IF mc.op = "disarm" /\ mc.val
        THEN [req EXCEPT ![slot] =
                [NoRequest EXCEPT !.mode =
                    IF was.mode = "disarmed" \/ (was.mode \in {"oneshot", "repeat"} /\ was.ok)
                    THEN "disarmed" ELSE "none"]]
        ELSE req

\* The application's use of the library, after the example sketch: it puts
\* the first timer it constructs to work and constructs the others only to
\* use up the platform's timers
Active == {1}
\* the hardware slots of the timers at work (object t takes slot t - 1)
ActiveSlots == {t - 1 : t \in Active}

\* the first timer constructed after the platform's timers are used up
FirstZombie == SYST_MAX_TIMERS + 1

\* objects the application calls the library on: the object it constructed
\* last, when that is a timer at work or the first zombie (further zombies
\* are only constructed)
Operable ==
    {t \in Objects : t = Len(timers) /\ (t \in Active \/ (Bounded /\ t = FirstZombie))}

----------------------------------------------------------------------------
(* AVR hardware: TCCRnA, TCCRnB, TIMSKn.OCIEnA, OCRnA, TIFRn.OCFnA *)

AVRReset == [tccra |-> 0, tccrb |-> 0, ocie |-> FALSE, ocr |-> 0, ocf |-> FALSE]

\* _BV(CS10) | _BV(CS12) | _BV(WGM12)
CS_1024_CTC == 13

stopTimer(h, timerNum) ==
    [h EXCEPT ![timerNum].tccra = 0, ![timerNum].tccrb = 0]

initTimer(h, timerNum) ==
    [stopTimer(h, timerNum) EXCEPT ![timerNum].ocie = TRUE]

\* TCCRnB |= bits: the register is 0 or already holds exactly these bits
startTimer(h, timerNum) ==
    [h EXCEPT ![timerNum].tccrb = CS_1024_CTC]

constrain(amt, low, high) ==
    IF amt < low THEN low ELSE IF amt > high THEN high ELSE amt

\* static_cast<uint16_t>(MAX_INTERVAL * 1000.0)
maximum == (65535 * 1024) \div F_CPU_kHz

\* the interval in ms that setTimerInterval programs for a 16-bit request
elapsedMs(msec) == constrain(msec, 1, maximum)

\* counter = (uint16_t)(elapsed / (1024.0 / F_CPU) - 1.0), truncated
counterOf(msec) ==
    LET ticks == (elapsedMs(msec) * F_CPU_kHz) \div 1024
    IN  IF ticks >= 1 THEN ticks - 1 ELSE 0

setTimerInterval(h, timerNum, msec) ==
    [h EXCEPT ![timerNum].ocr = counterOf(msec)]

uint16(x) == x % 65536

AVRRunning(s) == hw[s].tccrb # 0

----------------------------------------------------------------------------
(* SAM hardware: the DueTimer object of a slot and its interrupt line.     *)
(* cb is the handler registered with DueTimer::attachInterrupt (the index  *)
(* k of _isrSAMk, -1 for none), period the period in microseconds as the   *)
(* pair <<high 16 bits, low 16 bits>> of a 32-bit value, run whether the   *)
(* counter runs, irqEn and pend the line's enable and pending bits in the  *)
(* interrupt controller.                                                   *)

SAMReset == [cb |-> -1, period |-> <<0, 0>>, run |-> FALSE, irqEn |-> FALSE,
             pend |-> FALSE]

\* the k of the _isrSAMk that _SAMCallbackTable holds for a slot
_SAMCallbackTable(slot) ==
    IF board = "DueServo"
    THEN CASE slot = 0 -> 0 [] slot = 1 -> 1 [] slot = 2 -> 6
           [] slot = 3 -> 7 [] OTHER -> 8
    ELSE slot

DueTimer_attachInterrupt(h, slot, k) == [h EXCEPT ![slot].cb = k]

\* _interval * 1000 in uint32_t arithmetic, as <<high 16 bits, low 16 bits>>
msecToUsec(interval) ==
    LET a == interval \div 65536
        b == interval % 65536
        lo == b * 1000
    IN  <<(((a * 1000) % 65536) + (lo \div 65536)) % 65536, lo % 65536>>

\* a start that sets every DueTimer object running
DueTimer_start_all(h, slot, usec) ==
    [s \in DOMAIN h |-> [h[s] EXCEPT !.period = usec, !.pend = FALSE,
                                     !.irqEn = TRUE, !.run = TRUE]]

\* DueTimer::start(microseconds): a period of 0 keeps the period set before
DueTimer_start(h, slot, usec) ==
    [h EXCEPT ![slot].period = IF usec # <<0, 0>> THEN usec ELSE @,
              ![slot].pend = FALSE,
              ![slot].irqEn = TRUE,
              ![slot].run = TRUE]

DueTimer_stop(h, slot) ==
    [h EXCEPT ![slot].irqEn = FALSE, ![slot].run = FALSE]

----------------------------------------------------------------------------
(* ESP hardware: the os_timer_t member of a timer object, run by the SDK *)

ESPReset == [armed |-> FALSE, period |-> 0, rep |-> FALSE, fn |-> nullptr,
             arg |-> nullptr]

os_timer_setfn(h, slot, fn, arg) == [h EXCEPT ![slot].fn = fn, ![slot].arg = arg]

os_timer_arm(h, slot, ms, repeat) ==
    [h EXCEPT ![slot].armed = TRUE, ![slot].period = ms, ![slot].rep = repeat]

os_timer_disarm(h, slot) == [h EXCEPT ![slot].armed = FALSE]

\* the hardware of a slot before the program touches it
HwReset ==
    CASE Platform = "T_AVR" -> AVRReset
      [] Platform = "T_SAM" -> SAMReset
      [] OTHER -> ESPReset

----------------------------------------------------------------------------
(* Interrupt delivery *)

\* the processor takes slot s's interrupt now.  AVR: the flag is set, its
\* mask bit and the global enable are set (a handler that has set I again
\* can be interrupted).  SAM: the line is pending and enabled, interrupts
\* are not masked and no handler is active (the timer lines share one
\* priority).
Deliverable(s) ==
    CASE Platform = "T_AVR" -> I /\ hw[s].ocie /\ hw[s].ocf
      [] Platform = "T_SAM" -> I /\ isr = <<>> /\ hw[s].irqEn /\ hw[s].pend
      [] OTHER -> FALSE

NoneDeliverable == \A s \in Slots : ~Deliverable(s)

\* the main context executes its next statement
MainRuns == isr = <<>> /\ NoneDeliverable

\* the innermost handler executes its next statement
HandlerRuns == isr # <<>> /\ NoneDeliverable

Top == isr[Len(isr)]
SetTopPc(p) == [isr EXCEPT ![Len(isr)].pc = p]
Pop == SubSeq(isr, 1, Len(isr) - 1)

\* a handler run for slot s on object that; called tells whether it invoked
\* the callback, fn and arg with what, en whether interrupts were enabled
Frame(s, that, p, called, fn, arg, en) ==
    [slot |-> s, that |-> that, pc |-> p, called |-> called,
     fn |-> IF called THEN fn ELSE nullptr,
     arg |-> IF called THEN arg ELSE nullptr,
     en |-> called /\ en]

\* a handler entered with a null `that`: it reads the flags through the null
\* pointer and goes no further
NullFrame(s) == Frame(s, 0, "fault", FALSE, nullptr, nullptr, FALSE)

\* the main context inside call o on object t
Call(o, t) == [Idle EXCEPT !.op = o, !.t = t]
\* call o on object t is about to return v to the application
Return(o, t, v) == [Idle EXCEPT !.op = o, !.t = t, !.pc = "ret", !.val = v]

\* the call returns to the application
ReturnToCaller ==
    /\ MainRuns
    /\ mc.pc = "ret"
    /\ mc' = Idle
    /\ req' = Returned
    /\ UNCHANGED <<board, _index, timers, table, hw, I, isr>>

----------------------------------------------------------------------------
(* SysTimerBase *)

setInterval(t, interval) ==
    /\ MainRuns /\ mc = Idle /\ t \in Operable
    /\ timers' = [timers EXCEPT ![t]._interval = interval]
    /\ UNCHANGED <<board, _index, table, hw, I, isr, mc, req>>

getInterval(t) == timers[t]._interval
valid(t) == timers[t]._valid
armed(t) == timers[t]._armed
isRepeating(t) == timers[t]._repeating
getPlatform(t) == timers[t]._platform

----------------------------------------------------------------------------
(* Statements shared by AVRTimer and SAMTimer.  Each operator is one       *)
(* statement executed on object t; an interrupt can be taken between any   *)
(* two of them.                                                            *)

\* an operation that does not look at _valid
ifValid_unchecked(t) == TRUE

\* if (_valid) at the head of attachInterrupt() and disarm()
ifValid(t) == timers[t]._valid

\* _callback = isr;
attach_callback(t, fn) == timers' = [timers EXCEPT ![t]._callback = fn]

\* _callbackArg = callbackArg;
attach_arg(t, arg) == timers' = [timers EXCEPT ![t]._callbackArg = arg]

\* the condition of arm()
armable(t) ==
    /\ timers[t]._valid
    /\ timers[t]._callback # nullptr
    /\ timers[t]._interval > 0

\* _repeating = true / false, the first store of either branch
arm_repeating(t, repeat) == timers' = [timers EXCEPT ![t]._repeating = repeat]

\* _oneshot = false / true, the second store of either branch
arm_oneshot(t, repeat) == timers' = [timers EXCEPT ![t]._oneshot = ~repeat]

\* an arm() whose last store also writes the validity flag
arm_armed_invalidating(t, v) ==
    timers' = [timers EXCEPT ![t]._armed = v, ![t]._valid = v]

\* _armed = true (after the start) or _armed = false (the else branch)
arm_armed(t, v) == timers' = [timers EXCEPT ![t]._armed = v]

disarm_repeating(t) == timers' = [timers EXCEPT ![t]._repeating = FALSE]
disarm_oneshot(t) == timers' = [timers EXCEPT ![t]._oneshot = FALSE]
disarm_armed(t) == timers' = [timers EXCEPT ![t]._armed = FALSE]

\* the hardware part of arm(): what the statement at pc does on object t
arm_hw(t, p) ==
    LET slot == timers[t]._current IN
    CASE Platform = "T_AVR" /\ p = "interval" ->
           setTimerInterval(hw, slot, uint16(timers[t]._interval))
      [] Platform = "T_AVR" /\ p = "start" -> startTimer(hw, slot)
      [] OTHER -> DueTimer_start(hw, slot, msecToUsec(timers[t]._interval))

\* the hardware part of disarm()
disarm_hw(t) ==
    IF Platform = "T_AVR"
    THEN stopTimer(hw, timers[t]._current)
    ELSE DueTimer_stop(hw, timers[t]._current)

----------------------------------------------------------------------------
(* Construction *)

\* a constructor that takes a timer only while fewer than SYST_MAX_TIMERS - 1
\* are taken
\* a capacity test that always passes
timerAvailable_always == TRUE

timerAvailable_exclusive == _index + 1 < SYST_MAX_TIMERS

\* if ((_index + 1) <= SYST_MAX_TIMERS): a hardware timer is left to allocate
timerAvailable == _index + 1 <= SYST_MAX_TIMERS

\* a constructor that leaves the counter as it was
preincrement_absent(i) == i

\* ++_index
preincrement(i) == i + 1

\* a constructor that leaves the table as it was
tableWrite_skipped(tbl, slot, id) == tbl

\* _AVRTimerTable[_index] = this, _SAMTimerTable[_index] = this
tableWrite(tbl, slot, id) == [tbl EXCEPT ![slot] = id]

\* AVRTimer::AVRTimer up to the table write
AVRTimer ==
    /\ Platform = "T_AVR" /\ MainRuns /\ mc = Idle
    /\ Len(timers) < MaxObjects
    /\ \E p \in Indeterminate :
         LET id == Len(timers) + 1
             fresh == SysTimerBase(p)
         IN  IF timerAvailable
             THEN /\ timers' = Append(timers,
                        [fresh EXCEPT !._platform = "T_AVR", !._valid = TRUE,
                                      !._current = _index])
                  /\ _index' = preincrement(_index)
                  /\ table' = tableWrite(table, _index, id)
                  /\ mc' = [Call("AVRTimer", id) EXCEPT !.pc = "init"]
             ELSE /\ timers' = Append(timers, [fresh EXCEPT !._valid = FALSE])
                  /\ UNCHANGED <<_index, table, mc>>
    /\ UNCHANGED <<board, hw, I, isr, req>>

\* AVRTimer::AVRTimer: initTimer(_current), cli .. sei
AVRTimer_initTimer ==
    /\ MainRuns
    /\ mc.op = "AVRTimer" /\ mc.pc = "init"
    /\ hw' = initTimer(hw, timers[mc.t]._current)
    /\ I' = TRUE
    /\ mc' = Idle
    /\ UNCHANGED <<board, _index, timers, table, isr, req>>

SAMTimer ==
    /\ Platform = "T_SAM" /\ MainRuns /\ mc = Idle
    /\ Len(timers) < MaxObjects
    /\ \E p \in Indeterminate :
         LET id == Len(timers) + 1
             fresh == SysTimerBase(p)
         IN  IF timerAvailable
             THEN /\ timers' = Append(timers,
                        [fresh EXCEPT !._platform = "T_SAM", !._valid = TRUE,
                                      !._current = _index])
                  /\ _index' = preincrement(_index)
                  /\ table' = tableWrite(table, _index, id)
             ELSE /\ timers' = Append(timers, [fresh EXCEPT !._valid = FALSE])
                  /\ UNCHANGED <<_index, table>>
    /\ UNCHANGED <<board, hw, I, isr, mc, req>>

ESPTimer ==
    /\ Platform = "T_ESP" /\ MainRuns /\ mc = Idle
    /\ Len(timers) < MaxObjects
    /\ \E p \in Indeterminate :
         timers' = Append(timers,
             [SysTimerBase(p) EXCEPT !._platform = "T_ESP", !._valid = TRUE])
    /\ UNCHANGED <<board, _index, table, hw, I, isr, mc, req>>

----------------------------------------------------------------------------
(* AVRTimer and SAMTimer called from the main context *)

attachInterrupt(t, fn, arg) ==
    /\ Platform # "T_ESP" /\ MainRuns /\ mc = Idle /\ t \in Operable
    /\ IF ifValid(t)
       THEN /\ attach_callback(t, fn)
            /\ mc' = [Call("attachInterrupt", t) EXCEPT !.pc = "arg", !.arg = arg]
       ELSE /\ mc' = Return("attachInterrupt", t, FALSE)
            /\ UNCHANGED timers
    /\ UNCHANGED <<board, _index, table, hw, I, isr, req>>

\* AVR: the last statement before return true; SAM: one more follows
attachInterrupt_arg ==
    /\ MainRuns
    /\ mc.op = "attachInterrupt" /\ mc.pc = "arg"
    /\ attach_arg(mc.t, mc.arg)
    /\ mc' = IF Platform = "T_AVR"
             THEN Return("attachInterrupt", mc.t, TRUE)
             ELSE [mc EXCEPT !.pc = "due"]
    /\ UNCHANGED <<board, _index, table, hw, I, isr, req>>

\* _DueTimers[_current]->attachInterrupt(_SAMCallbackTable[_current]);
SAM_attachInterrupt_due ==
    /\ MainRuns
    /\ mc.op = "attachInterrupt" /\ mc.pc = "due"
    /\ LET slot == timers[mc.t]._current
       IN  hw' = DueTimer_attachInterrupt(hw, slot, _SAMCallbackTable(slot))
    /\ mc' = Return("attachInterrupt", mc.t, TRUE)
    /\ UNCHANGED <<board, _index, timers, table, I, isr, req>>

arm(t, repeat) ==
    /\ Platform # "T_ESP" /\ MainRuns /\ mc = Idle /\ t \in Operable
    /\ IF armable(t)
       THEN /\ arm_repeating(t, repeat)
            /\ mc' = [Call("arm", t) EXCEPT !.pc = "oneshot", !.rep = repeat,
                                            !.prev = req[SlotOf(t)].mode]
            /\ req' = IF repeat THEN Requested(SlotOf(t), TRUE) ELSE req
       ELSE /\ arm_armed(t, FALSE)
            /\ mc' = [Call("arm", t) EXCEPT !.pc = "return", !.rep = repeat]
            /\ req' = req
    /\ UNCHANGED <<board, _index, table, hw, I, isr>>

arm_oneshot_step ==
    /\ MainRuns
    /\ mc.op = "arm" /\ mc.pc = "oneshot"
    /\ arm_oneshot(mc.t, mc.rep)
    /\ mc' = [mc EXCEPT !.pc = IF Platform = "T_AVR" THEN "interval" ELSE "start"]
    /\ req' = IF mc.rep THEN req ELSE Requested(SlotOf(mc.t), FALSE)
    /\ UNCHANGED <<board, _index, table, hw, I, isr>>

\* setTimerInterval(_current, static_cast<uint16_t>(_interval)); cli .. sei
AVR_arm_setTimerInterval ==
    /\ MainRuns
    /\ mc.op = "arm" /\ mc.pc = "interval"
    /\ hw' = arm_hw(mc.t, "interval")
    /\ I' = TRUE
    /\ mc' = [mc EXCEPT !.pc = "start"]
    /\ UNCHANGED <<board, _index, timers, table, isr, req>>

\* AVR: startTimer(_current); cli .. sei
\* SAM: _DueTimers[_current]->start(static_cast<double>(_interval * 1000));
arm_start ==
    /\ MainRuns
    /\ mc.op = "arm" /\ mc.pc = "start"
    /\ hw' = arm_hw(mc.t, "start")
    /\ I' = IF Platform = "T_AVR" THEN TRUE ELSE I
    /\ mc' = [mc EXCEPT !.pc = "armed"]
    /\ UNCHANGED <<board, _index, timers, table, isr, req>>

arm_armed_step ==
    /\ MainRuns
    /\ mc.op = "arm" /\ mc.pc = "armed"
    /\ arm_armed(mc.t, TRUE)
    /\ mc' = [mc EXCEPT !.pc = "return"]
    /\ UNCHANGED <<board, _index, table, hw, I, isr, req>>

\* return _armed;  (_armed is volatile: it is read again here)
arm_return ==
    /\ MainRuns
    /\ mc.op = "arm" /\ mc.pc = "return"
    /\ mc' = [mc EXCEPT !.pc = "ret", !.val = timers[mc.t]._armed]
    /\ UNCHANGED <<board, _index, timers, table, hw, I, isr, req>>

\* if (_valid) { stopTimer(_current) (cli .. sei) or _DueTimers[..]->stop()
disarm(t) ==
    /\ Platform # "T_ESP" /\ MainRuns /\ mc = Idle /\ t \in Operable
    /\ IF ifValid(t)
       THEN /\ hw' = disarm_hw(t)
            /\ I' = IF Platform = "T_AVR" THEN TRUE ELSE I
            /\ mc' = [Call("disarm", t) EXCEPT !.pc = "repeating"]
       ELSE /\ mc' = Return("disarm", t, FALSE)
            /\ UNCHANGED <<hw, I>>
    /\ UNCHANGED <<board, _index, timers, table, isr, req>>

disarm_repeating_step ==
    /\ MainRuns
    /\ mc.op = "disarm" /\ mc.pc = "repeating"
    /\ disarm_repeating(mc.t)
    /\ mc' = [mc EXCEPT !.pc = "oneshot"]
    /\ UNCHANGED <<board, _index, table, hw, I, isr, req>>

disarm_oneshot_step ==
    /\ MainRuns
    /\ mc.op = "disarm" /\ mc.pc = "oneshot"
    /\ disarm_oneshot(mc.t)
    /\ mc' = [mc EXCEPT !.pc = "armed"]
    /\ UNCHANGED <<board, _index, table, hw, I, isr, req>>

\* _armed = false; return true;
disarm_armed_step ==
    /\ MainRuns
    /\ mc.op = "disarm" /\ mc.pc = "armed"
    /\ disarm_armed(mc.t)
    /\ mc' = Return("disarm", mc.t, TRUE)
    /\ UNCHANGED <<board, _index, table, hw, I, isr, req>>

----------------------------------------------------------------------------
(* ESPTimer: the SDK runs the callbacks and reads none of the object's     *)
(* fields, so each call is one step.                                       *)

ESP_attachInterrupt(t, fn, arg) ==
    /\ Platform = "T_ESP" /\ MainRuns /\ mc = Idle /\ t \in Operable
    /\ timers' = [timers EXCEPT ![t]._callback = fn]
    /\ hw' = os_timer_setfn(hw, SlotOf(t), fn, arg)
    /\ mc' = Return("attachInterrupt", t, TRUE)
    /\ UNCHANGED <<board, _index, table, I, isr, req>>

\* the stored interval passed on as it is
ESP_period_unfloored(interval) == interval

\* the period passed to os_timer_arm
ESP_period(interval) == IF interval >= 5 THEN interval ELSE 5

ESP_arm(t, repeat) ==
    /\ Platform = "T_ESP" /\ MainRuns /\ mc = Idle /\ t \in Operable
    /\ IF timers[t]._callback # nullptr /\ timers[t]._interval > 0
       THEN /\ hw' = os_timer_arm(hw, SlotOf(t),
                                  ESP_period(timers[t]._interval), repeat)
            /\ timers' = [timers EXCEPT ![t]._repeating = repeat,
                                        ![t]._armed = IF repeat THEN TRUE ELSE FALSE]
            /\ req' = Requested(SlotOf(t), repeat)
            /\ mc' = [Return("arm", t, IF repeat THEN TRUE ELSE FALSE)
                        EXCEPT !.rep = repeat, !.prev = req[SlotOf(t)].mode]
       ELSE /\ timers' = [timers EXCEPT ![t]._armed = FALSE]
            /\ mc' = [Return("arm", t, FALSE) EXCEPT !.rep = repeat]
            /\ UNCHANGED <<hw, req>>
    /\ UNCHANGED <<board, _index, table, I, isr>>

ESP_disarm(t) ==
    /\ Platform = "T_ESP" /\ MainRuns /\ mc = Idle /\ t \in Operable
    /\ hw' = os_timer_disarm(hw, SlotOf(t))
    /\ timers' = [timers EXCEPT ![t]._armed = FALSE]
    /\ mc' = Return("disarm", t, TRUE)
    /\ UNCHANGED <<board, _index, table, I, isr, req>>

\* the SDK's timer expires and the SDK calls the function set with
\* os_timer_setfn; a timer armed without repeat is disarmed by the SDK
ESP_Expire(s) ==
    /\ Platform = "T_ESP"
    /\ isr = <<>>
    /\ hw[s].armed
    /\ hw' = [hw EXCEPT ![s].armed = hw[s].rep]
    /\ req' = Invoked(s)
    /\ isr' = <<Frame(s, s + 1, "sdk", TRUE, hw[s].fn, hw[s].arg, I)>>
    /\ UNCHANGED <<board, _index, timers, table, I, mc>>

\* the callback returns to the SDK
ESP_CallbackReturn ==
    /\ HandlerRuns
    /\ Top.pc = "sdk"
    /\ isr' = Pop
    /\ UNCHANGED <<board, _index, timers, table, hw, I, mc, req>>

----------------------------------------------------------------------------
(* Interrupts on AVR and SAM *)

\* AVR: the counter reaches the compare value and the hardware sets OCFnA
AVR_CompareMatch(s) ==
    /\ Platform = "T_AVR"
    /\ AVRRunning(s)
    /\ ~hw[s].ocf
    /\ hw' = [hw EXCEPT ![s].ocf = TRUE]
    /\ UNCHANGED <<board, _index, timers, table, I, isr, mc, req>>

\* SAM: the counter reaches its period and the line becomes pending
SAM_Expire(s) ==
    /\ Platform = "T_SAM"
    /\ hw[s].run
    /\ ~hw[s].pend
    /\ hw' = [hw EXCEPT ![s].pend = TRUE]
    /\ UNCHANGED <<board, _index, timers, table, I, isr, mc, req>>

\* ISR(TIMERn_COMPA_vect) and _AVRCommonHandler up to the end of the first
\* if: the hardware clears I and OCFnA on entry, the shim passes the table
\* entry of its slot, the handler calls the callback when a flag is set
_AVRCommonHandler(s) ==
    /\ Platform = "T_AVR"
    /\ Deliverable(s)
    /\ IF table[s] = 0
       THEN /\ isr' = Append(isr, NullFrame(s))
            /\ req' = req
       ELSE LET that == timers[table[s]]
                called == that._repeating \/ that._oneshot
            IN  /\ req' = IF called THEN Invoked(s) ELSE req
                /\ isr' = Append(isr, Frame(s, table[s], "oneshot", called,
                                       that._callback, that._callbackArg, FALSE))
    /\ hw' = [hw EXCEPT ![s].ocf = FALSE]
    /\ I' = FALSE
    /\ UNCHANGED <<board, _index, timers, table, mc>>

\* the DueTimer handler calls the registered _isrSAMk, which passes
\* _SAMTimerTable[k] to _SAMCommonHandler: noInterrupts(), then the
\* callback when a flag is set
_SAMCommonHandler(s) ==
    /\ Platform = "T_SAM"
    /\ Deliverable(s)
    /\ hw[s].cb # -1
    /\ hw[s].cb \in Slots
    /\ IF table[hw[s].cb] = 0
       THEN /\ isr' = Append(isr, NullFrame(s))
            /\ req' = req
       ELSE LET id == table[hw[s].cb]
                that == timers[id]
                called == that._repeating \/ that._oneshot
            IN  /\ req' = IF called THEN Invoked(s) ELSE req
                /\ isr' = Append(isr, Frame(s, id, "oneshot", called,
                                       that._callback, that._callbackArg, FALSE))
    /\ hw' = [hw EXCEPT ![s].pend = FALSE]
    /\ I' = FALSE
    /\ UNCHANGED <<board, _index, timers, table, mc>>

\* a handler that disarms a repeating timer as well
handler_oneshot_or_repeating ==
    /\ HandlerRuns
    /\ Top.pc = "oneshot"
    /\ IF timers[Top.that]._oneshot \/ timers[Top.that]._repeating
       THEN /\ timers' = [timers EXCEPT ![Top.that]._oneshot = FALSE]
            /\ hw' = disarm_hw(Top.that)
            /\ I' = IF Platform = "T_AVR" THEN TRUE ELSE I
            /\ isr' = SetTopPc("repeating")
       ELSE /\ isr' = Pop
            /\ I' = TRUE
            /\ UNCHANGED <<timers, hw>>
    /\ UNCHANGED <<board, _index, table, mc, req>>

\* a handler that disarms whatever the one-shot flag says
handler_oneshot_unconditional ==
    /\ HandlerRuns
    /\ Top.pc = "oneshot"
    /\ timers' = [timers EXCEPT ![Top.that]._oneshot = FALSE]
    /\ hw' = disarm_hw(Top.that)
    /\ I' = IF Platform = "T_AVR" THEN TRUE ELSE I
    /\ isr' = SetTopPc("repeating")
    /\ UNCHANGED <<board, _index, table, mc, req>>

\* a handler without the one-shot block: it returns after the callback
handler_oneshot_absent ==
    /\ HandlerRuns
    /\ Top.pc = "oneshot"
    /\ isr' = Pop
    /\ I' = TRUE
    /\ UNCHANGED <<board, _index, timers, table, hw, mc, req>>

\* if (that->_oneshot) { that->_oneshot = false; that->disarm() up to the
\* end of stopTimer (sei) or of DueTimer::stop; otherwise the handler
\* returns (AVR: reti sets I, SAM: interrupts())
handler_oneshot ==
    /\ HandlerRuns
    /\ Top.pc = "oneshot"
    /\ IF timers[Top.that]._oneshot
       THEN /\ timers' = [timers EXCEPT ![Top.that]._oneshot = FALSE]
            /\ hw' = disarm_hw(Top.that)
            /\ I' = IF Platform = "T_AVR" THEN TRUE ELSE I
            /\ isr' = SetTopPc("repeating")
       ELSE /\ isr' = Pop
            /\ I' = TRUE
            /\ UNCHANGED <<timers, hw>>
    /\ UNCHANGED <<board, _index, table, mc, req>>

handler_disarm_repeating ==
    /\ HandlerRuns
    /\ Top.pc = "repeating"
    /\ disarm_repeating(Top.that)
    /\ isr' = SetTopPc("oneshot2")
    /\ UNCHANGED <<board, _index, table, hw, I, mc, req>>

handler_disarm_oneshot ==
    /\ HandlerRuns
    /\ Top.pc = "oneshot2"
    /\ disarm_oneshot(Top.that)
    /\ isr' = SetTopPc("armed")
    /\ UNCHANGED <<board, _index, table, hw, I, mc, req>>

\* _armed = false; return true; and the return from the interrupt
handler_disarm_armed ==
    /\ HandlerRuns
    /\ Top.pc = "armed"
    /\ disarm_armed(Top.that)
    /\ isr' = Pop
    /\ I' = TRUE
    /\ UNCHANGED <<board, _index, table, hw, mc, req>>

----------------------------------------------------------------------------
Init ==
    /\ board \in Boards
    /\ _index = 0
    /\ timers = <<>>
    /\ table = [s \in Slots |-> 0]
    /\ hw = [s \in Slots |-> HwReset]
    /\ I = TRUE
    /\ isr = <<>>
    /\ mc = Idle
    /\ req = [s \in Slots |-> NoRequest]

Next ==
    \/ AVRTimer
    \/ AVRTimer_initTimer
    \/ SAMTimer
    \/ ESPTimer
    \/ \E t \in Objects, i \in Intervals : setInterval(t, i)
    \/ \E t \in Objects, a \in AttachInputs : attachInterrupt(t, a[1], a[2])
    \/ attachInterrupt_arg
    \/ SAM_attachInterrupt_due
    \/ \E t \in Objects, repeat \in BOOLEAN : arm(t, repeat)
    \/ arm_oneshot_step
    \/ AVR_arm_setTimerInterval
    \/ arm_start
    \/ arm_armed_step
    \/ arm_return
    \/ \E t \in Objects : disarm(t)
    \/ disarm_repeating_step
    \/ disarm_oneshot_step
    \/ disarm_armed_step
    \/ ReturnToCaller
    \/ \E t \in Objects, a \in AttachInputs : ESP_attachInterrupt(t, a[1], a[2])
    \/ \E t \in Objects, repeat \in BOOLEAN : ESP_arm(t, repeat)
    \/ \E t \in Objects : ESP_disarm(t)
    \/ \E s \in Slots : ESP_Expire(s)
    \/ ESP_CallbackReturn
    \/ \E s \in Slots : AVR_CompareMatch(s)
    \/ \E s \in Slots : SAM_Expire(s)
    \/ \E s \in Slots : _AVRCommonHandler(s)
    \/ \E s \in Slots : _SAMCommonHandler(s)
    \/ handler_oneshot
    \/ handler_disarm_repeating
    \/ handler_disarm_oneshot
    \/ handler_disarm_armed

Spec == Init /\ [][Next]_vars

\* The same program under the scheduling the hardware gives: a running
\* counter reaches its compare value, a deliverable interrupt is taken, a
\* handler and a library call that have begun run to their end.  The
\* application is free to make its next call or not.
Expiry ==
    \E s \in Slots : AVR_CompareMatch(s) \/ SAM_Expire(s) \/ ESP_Expire(s)
Delivery == \E s \in Slots : _AVRCommonHandler(s) \/ _SAMCommonHandler(s)
HandlerStep ==
    \/ handler_oneshot
    \/ handler_disarm_repeating
    \/ handler_disarm_oneshot
    \/ handler_disarm_armed
    \/ ESP_CallbackReturn
CallStep ==
    \/ AVRTimer_initTimer
    \/ attachInterrupt_arg
    \/ SAM_attachInterrupt_due
    \/ arm_oneshot_step
    \/ AVR_arm_setTimerInterval
    \/ arm_start
    \/ arm_armed_step
    \/ arm_return
    \/ disarm_repeating_step
    \/ disarm_oneshot_step
    \/ disarm_armed_step
    \/ ReturnToCaller

FairSpec ==
    /\ Spec
    /\ WF_vars(Expiry)
    /\ WF_vars(Delivery)
    /\ WF_vars(HandlerStep)
    /\ WF_vars(CallStep)

----------------------------------------------------------------------------
(* Vocabulary of the properties *)

\* call o is handing its result to the application
Returning(o) == mc.op = o /\ mc.pc = "ret"

\* the application is between two calls and no handler runs
Quiet == mc = Idle /\ isr = <<>>

\* the timer object that owns slot s (0: none)
TimerOf(s) == IF Platform = "T_ESP" THEN s + 1 ELSE table[s]

\* the counter of slot s counts / the vendor timer is armed
hwRunning(s) ==
    CASE Platform = "T_AVR" -> AVRRunning(s)
      [] Platform = "T_SAM" -> hw[s].run
      [] OTHER -> hw[s].armed

\* what disarm() is said to keep of object t
Config(t) ==
    <<timers[t]._interval, timers[t]._callback, timers[t]._callbackArg,
      IF Platform = "T_ESP" THEN <<hw[t - 1].fn, hw[t - 1].arg>> ELSE <<>> >>

\* the slots whose timer object exists
Owned == {s \in Slots : TimerOf(s) \in Objects}
----------------------------------------------------------------------------
(* Allocation and zombie timers *)

\* C1: on a bounded platform with capacity N = SYST_MAX_TIMERS, however many
\* timers are constructed, valid() is true for exactly the first N
\* constructed and false for every timer constructed after them.
C1_FirstNValid ==
    Bounded => \A t \in Objects : valid(t) <=> t <= SYST_MAX_TIMERS

\* the capacity is used up and one more timer has been constructed
C1_Witness ==
    /\ Bounded
    /\ Len(timers) = SYST_MAX_TIMERS + 1
    /\ valid(SYST_MAX_TIMERS)
    /\ ~valid(SYST_MAX_TIMERS + 1)

\* C2: on a zombie timer every boolean operation reports false:
\* attachInterrupt, arm(true), arm(false) and disarm return false, and
\* armed(), isRepeating() and valid() are false, whatever was done to it.
C2_ZombieReportsFalse ==
    \A t \in Objects :
        ~timers[t]._valid =>
            /\ ~valid(t) /\ ~armed(t) /\ ~isRepeating(t)
            /\ (mc.t = t /\ mc.pc = "ret") => ~mc.val

\* arm(true) returns on a zombie whose interval has been set
C2_Witness ==
    /\ Returning("arm") /\ mc.rep
    /\ ~valid(mc.t)
    /\ getInterval(mc.t) > 0

\* C3: no operation on a zombie timer (setInterval, attachInterrupt, arm,
\* disarm) changes anything observable: its interval, callback, argument and
\* flags, the allocation counter, the dispatch table and the hardware stay
\* as they are.
C3_ZombieOperationsChangeNothing ==
    [][\A t \in Objects :
          ~valid(t) =>
              /\ timers'[t] = timers[t]
              /\ (mc.t = t \/ mc'.t = t) => UNCHANGED <<_index, table, hw>>]_vars

----------------------------------------------------------------------------
(* One-shot and repeating timers *)

\* a one-shot request stands for slot s (arm(false) has set the mode flag and
\* neither a later arm() nor a disarm() has replaced it)
OneShotRequested(s) == req[s].mode = "oneshot"

\* C4: after arm(false) on a valid timer with a callback and a positive
\* interval the callback is invoked exactly once: it is invoked when the
\* hardware expires, and never a second time unless the timer is armed again.
C4_OneShotFiresOnce ==
    /\ [](\A s \in Slots : OneShotRequested(s) => req[s].calls <= 1)
    /\ \A s \in ActiveSlots :
          (s \in Slots /\ OneShotRequested(s) /\ req[s].calls = 0)
              ~> (s \in Slots /\ (req[s].calls = 1 \/ ~OneShotRequested(s)))

\* arm(false) has returned true, the callback has run once and the hardware
\* has been stopped again
C4_Witness ==
    \E s \in Owned :
        /\ Quiet
        /\ OneShotRequested(s) /\ req[s].ok
        /\ req[s].calls = 1
        /\ ~hwRunning(s)

\* C5: once a one-shot timer has fired, armed() and isRepeating() are false
\* and the hardware is stopped without the application calling disarm(), and
\* this stays so until the next arm(), wherever the interrupt preempted the
\* main context (also between arm() starting the hardware and arm() writing
\* the armed flag).
C5_FiredOneShotIsDisarmed ==
    \A s \in Owned :
        (Quiet /\ OneShotRequested(s) /\ req[s].calls >= 1) =>
            /\ ~armed(TimerOf(s))
            /\ ~isRepeating(TimerOf(s))
            /\ ~hwRunning(s)

\* C6: after arm(true) has returned true the callback is invoked on every
\* hardware expiry until disarm() is called, and once disarm() has returned
\* the callback is not invoked until a later arm() takes effect.
C6_RepeatsUntilDisarm ==
    \A i \in DOMAIN isr :
        LET r == req[isr[i].slot] IN
        /\ (r.mode = "repeat" /\ r.ok /\ mc.op \notin {"arm", "disarm"})
               => isr[i].called
        /\ isr[i].called => r.mode \in {"oneshot", "repeat"}

\* C7: arm(repeat) returns true exactly when the timer is valid, has a
\* non-null callback and a positive interval, for repeat true and false and
\* on every backend; otherwise it returns false.
C7_ArmReturnsTrueIffArmable ==
    Returning("arm") => (mc.val <=> armable(mc.t))

\* C8: disarm() on a valid timer returns true from any state, and afterwards
\* armed() and isRepeating() are false and the one-shot flag is clear, on
\* every backend.
C8_DisarmClearsFlags ==
    (Returning("disarm") /\ valid(mc.t)) =>
        /\ mc.val
        /\ ~armed(mc.t)
        /\ ~isRepeating(mc.t)
        /\ ~timers[mc.t]._oneshot

\* C9: disarm() leaves the interval, the callback and the argument as they
\* are, so that an arm() that follows a disarm() of an armed timer succeeds
\* with the configuration still in place.
C9_ArmAfterDisarmSucceeds ==
    [][/\ (mc.op = "disarm" \/ mc'.op = "disarm")
             => \A t \in Objects : Config(t)' = Config(t)
       /\ (Returning("arm") /\ mc.prev = "disarmed" /\ armable(mc.t))
             => mc.val]_vars

\* C10: getInterval() returns the interval the backend will use: on AVR a
\* request above the maximum of the 16-bit counter reads back as that
\* maximum.
C10_GetIntervalIsAdjusted ==
    \A t \in Objects :
        (Platform = "T_AVR" /\ valid(t)) => getInterval(t) <= maximum

----------------------------------------------------------------------------
(* Intervals *)

\* the period the hardware of slot s holds: the compare value on AVR, the
\* DueTimer period in microseconds on SAM, the SDK timer's period in ms on ESP
PeriodOf(s) == IF Platform = "T_AVR" THEN hw[s].ocr ELSE hw[s].period

\* the period the backend computes from a stored interval x
PeriodFor(x) ==
    CASE Platform = "T_AVR" -> counterOf(uint16(x))
      [] Platform = "T_SAM" -> msecToUsec(x)
      [] OTHER -> ESP_period(x)

\* arm() has passed the statement that programs and starts the hardware
Started == mc.op = "arm" /\ mc.pc \in {"armed", "return", "ret"}

\* C11: in every sequence disarm(); setInterval(x); arm(r) on a valid timer
\* the period that this arm() leaves in the hardware is the one computed from
\* x, never the period that an earlier arm() programmed.
C11_RearmProgramsStoredInterval ==
    (Started /\ mc.prev = "disarmed") =>
        PeriodOf(SlotOf(mc.t)) = PeriodFor(getInterval(mc.t))

----------------------------------------------------------------------------
(* Dispatch *)

\* C12: every callback invocation calls the function most recently stored by
\* attachInterrupt with the one argument given in that same attachInterrupt
\* call, unchanged (the null placeholder included): the invoked pair is a
\* pair that one attachInterrupt call has passed.
C12_InvokesAttachedPair ==
    \A i \in DOMAIN isr :
        isr[i].called => <<isr[i].fn, isr[i].arg>> \in AttachInputs

\* C13: interrupts are disabled before the user callback is called and stay
\* disabled while it runs, and they are enabled again once the handler has
\* returned, on every backend and for one-shot and repeating fires.
C13_CallbackRunsWithInterruptsDisabled ==
    /\ \A i \in DOMAIN isr : isr[i].called => ~isr[i].en
    /\ isr = <<>> => I

\* C14: on ESP arm() programs the vendor timer with max(stored interval, 5)
\* ms for every stored interval > 0, so that no armed ESP timer has a period
\* below 5 ms (setInterval(3); arm(true) gives 5 ms).
C14_ESPFloor ==
    Platform = "T_ESP" =>
        /\ \A s \in Slots : hw[s].armed => hw[s].period >= 5
        /\ (Returning("arm") /\ armable(mc.t)) =>
              LET x == getInterval(mc.t)
              IN  hw[SlotOf(mc.t)].period = IF x > 5 THEN x ELSE 5

\* arm() returns on an ESP timer whose interval of 3 ms was raised to 5 ms
C14_Witness ==
    /\ Platform = "T_ESP"
    /\ Returning("arm")
    /\ getInterval(mc.t) = 3
    /\ hw[SlotOf(mc.t)].armed
    /\ hw[SlotOf(mc.t)].period = 5

\* C15: on AVR the interval that arm() programs into the hardware is the
\* stored interval clamped into [1, maximum] (maximum = 4194 ms at 16 MHz),
\* for every 32-bit stored interval greater than 0, values of 65536 and above
\* included: the compare register holds the count of the clamped interval.
C15_AVRClampsStoredInterval ==
    (Platform = "T_AVR" /\ Started /\ armable(mc.t)) =>
        hw[SlotOf(mc.t)].ocr = counterOf(constrain(getInterval(mc.t), 1, maximum))

----------------------------------------------------------------------------
(* Status functions *)

\* C16: after an arm(repeat) that returned true isRepeating() returns repeat
\* (true after arm(true), false after arm(false)), and isRepeating() is true
\* only while the timer is set to repeat, that is while a repeating request
\* stands for its slot.
C16_IsRepeatingTellsMode ==
    /\ (Returning("arm") /\ mc.val) => (isRepeating(mc.t) <=> mc.rep)
    /\ \A s \in Owned :
          isRepeating(TimerOf(s)) => req[s].mode = "repeat"

\* C17: getPlatform() returns the platform kind of the build for every
\* timer object, zombies included, and the value never changes once the
\* object is constructed.
C17_GetPlatformIsTheBuild ==
    [][\A t \in Objects :
          /\ getPlatform(t) = Platform
          /\ getPlatform(t)' = getPlatform(t)]_vars

----------------------------------------------------------------------------
(* Every build configuration of the header *)

\* the builds of Boards and the other three: the 8 MHz Pro Micro (2 timers),
\* the Mega (4 timers) and the Due with USING_SERVO_LIB (5 timers)
Builds == Boards \cup {"ProMicro", "Mega", "DueServo"}

InitBuilds ==
    /\ board \in Builds
    /\ _index = 0
    /\ timers = <<>>
    /\ table = [s \in Slots |-> 0]
    /\ hw = [s \in Slots |-> HwReset]
    /\ I = TRUE
    /\ isr = <<>>
    /\ mc = Idle
    /\ req = [s \in Slots |-> NoRequest]

BuildsSpec == InitBuilds /\ [][Next]_vars

\* the index of the dispatch table entry that the interrupt shim of slot s
\* passes to the common handler: ISR(TIMERn_COMPA_vect) of slot s reads
\* _AVRTimerTable[s], _isrSAMk reads _SAMTimerTable[k]
ShimIndex(s) == IF Platform = "T_SAM" THEN _SAMCallbackTable(s) ELSE s

\* C18: for every valid timer with slot index i the interrupt shim of slot i
\* passes that same timer to the common handler, for every i below
\* SYST_MAX_TIMERS on AVR and in both SAM configurations (default and
\* USING_SERVO_LIB).
C18_ShimPassesOwnTimer ==
    \A t \in Objects :
        (valid(t) /\ Platform # "T_ESP") =>
            LET k == ShimIndex(timers[t]._current)
            IN  k \in Slots /\ table[k] = t

\* the interrupt source of slot s can raise an interrupt: OCIEnA on the AVR,
\* the NVIC line that DueTimer::start enables on the SAM
SourceEnabled(s) ==
    CASE Platform = "T_AVR" -> hw[s].ocie
      [] Platform = "T_SAM" -> hw[s].irqEn
      [] OTHER -> FALSE

\* C19: the table entry of a slot holds the constructed timer before the
\* slot's interrupt source is enabled, so whenever a source is enabled the
\* entry its shim reads is set, and no handler is ever entered on a null entry
C19_TableSetBeforeSourceEnabled ==
    /\ \A s \in Slots :
         SourceEnabled(s) => /\ ShimIndex(s) \in Slots
                             /\ table[ShimIndex(s)] # 0
                             /\ timers[table[ShimIndex(s)]]._current = s
    /\ \A i \in DOMAIN isr : isr[i].that # 0

\* a handler runs on the entry of a slot whose source the constructor enabled
C19_Witness ==
    /\ Platform \in {"T_AVR", "T_SAM"}
    /\ isr # <<>>
    /\ SourceEnabled(Top.slot)
    /\ Top.that = table[ShimIndex(Top.slot)]
    /\ Top.that # 0

\* the valid timers constructed up to and including object t
ValidUpTo(t) == {u \in 1..t : IsValid(u)}

\* C20: on the backends that keep a slot index (_current, AVR and SAM) the
\* k-th valid timer has slot k - 1, two valid timers never have the same
\* slot, and no step changes the slot of a valid timer
C20_SlotsInConstructionOrder ==
    [][Platform' # "T_ESP" =>
         /\ \A t \in Objects' :
              IsValid(t)' => timers'[t]._current = Cardinality(ValidUpTo(t)') - 1
         /\ \A t, u \in Objects' :
              (IsValid(t)' /\ IsValid(u)' /\ t # u)
                  => timers'[t]._current # timers'[u]._current
         /\ \A t \in Objects :
              IsValid(t) => timers'[t]._current = timers[t]._current]_vars

\* two valid timers hold slots 0 and 1 while the first one is at work
C20_Witness ==
    /\ Platform # "T_ESP"
    /\ Len(timers) >= 2
    /\ IsValid(1) /\ IsValid(2)
    /\ timers[1]._current = 0 /\ timers[2]._current = 1
    /\ timers[1]._armed

\* C21: on a bounded platform the allocator counter stays within
\* 0 .. SYST_MAX_TIMERS, no step decreases it, it is the number of valid
\* timers constructed so far, and a construction that yields a zombie leaves
\* it as it was
C21_CounterCountsValidTimers ==
    [][Bounded' =>
         /\ 0 <= _index' /\ _index' <= SYST_MAX_TIMERS'
         /\ _index' >= _index
         /\ _index' = Cardinality({t \in Objects' : IsValid(t)'})
         /\ (Len(timers') > Len(timers) /\ ~timers'[Len(timers')]._valid)
                => _index' = _index]_vars

\* the counter is at capacity and a zombie has been constructed
C21_Witness ==
    /\ Bounded
    /\ _index = SYST_MAX_TIMERS
    /\ Len(timers) > SYST_MAX_TIMERS
    /\ ~IsValid(Len(timers))

\* C22: valid() is fixed at construction: no step of setInterval,
\* attachInterrupt, arm, disarm or of an interrupt handler changes what
\* valid() returns for a constructed timer
C22_ValidIsFixed ==
    [][\A t \in Objects : valid(t)' = valid(t)]_vars

\* a zombie that setInterval and a failed arm() have acted on is still
\* invalid, next to a valid first timer
C22_Witness ==
    /\ Len(timers) >= 2
    /\ valid(1)
    /\ \E t \in Objects :
         /\ ~valid(t)
         /\ getInterval(t) # 0
         /\ mc.op = "arm" /\ mc.t = t /\ mc.pc = "ret" /\ ~mc.val

\* C23: at most one invocation of the common handler executes at a time:
\* while one handler runs, up to its return and through its one-shot disarm,
\* no handler of another timer and no second invocation of the same handler
\* has started
C23_OneHandlerAtATime == Len(isr) <= 1

\* the argument that the application attaches together with function fn
ArgAttachedWith(fn) == (CHOOSE p \in AttachInputs : p[1] = fn)[2]

\* C24: attachInterrupt stores the function and its argument together with
\* respect to the interrupt: a handler that invokes an attached function
\* passes it the argument of the same attachInterrupt call, never the
\* argument of the call before or after it
C24_AttachIsAtomic ==
    \A i \in DOMAIN isr :
        (isr[i].called /\ isr[i].fn # nullptr)
            => isr[i].arg = ArgAttachedWith(isr[i].fn)

\* C25: whenever the main context can observe it (between two calls, no
\* handler running) armed() of a valid timer is true exactly when the timer's
\* hardware counter, or its vendor timer, is counting
C25_ArmedIffCounting ==
    Quiet => \A s \in Owned :
                valid(TimerOf(s)) => (armed(TimerOf(s)) <=> hwRunning(s))

\* C26: when arm() returns false on a timer that has a slot, the timer is
\* unarmed whatever it was before the call: armed() and isRepeating() are
\* false and the hardware is not counting
C26_FailedArmLeavesUnarmed ==
    (Returning("arm") /\ ~mc.val /\ valid(mc.t) /\ isr = <<>>) =>
        /\ ~armed(mc.t)
        /\ ~isRepeating(mc.t)
        /\ ~hwRunning(SlotOf(mc.t))

\* C27: on AVR and SAM _repeating and _oneshot are never both true, and
\* whenever armed() is true while the main context is between two calls and
\* no handler runs, exactly one of the two is true
C27_ModeFlagsExclusive ==
    Platform # "T_ESP" =>
        \A t \in Objects :
            /\ ~(timers[t]._repeating /\ timers[t]._oneshot)
            /\ (Quiet /\ armed(t)) => (timers[t]._repeating # timers[t]._oneshot)

\* the registers of slot s in h that the library writes (not the pending flag,
\* which the hardware sets and clears)
Regs(h, s) ==
    CASE Platform = "T_AVR" -> <<h[s].tccra, h[s].tccrb, h[s].ocie, h[s].ocr>>
      [] Platform = "T_SAM" -> <<h[s].cb, h[s].period, h[s].run, h[s].irqEn>>
      [] OTHER -> <<h[s].fn, h[s].arg, h[s].rep, h[s].period, h[s].armed>>

\* an idle timer: neither repeating nor one-shot pending
IdleTimer(t) == ~timers[t]._repeating /\ ~timers[t]._oneshot

\* C28: when the interrupt of an idle timer fires, the dispatcher does not
\* invoke the callback and, from its entry to its return, changes no field
\* of the timer and no register of its slot
C28_IdleFireChangesNothing ==
    [][/\ (Platform # "T_ESP" /\ Len(isr') = Len(isr) + 1
            /\ Top'.that # 0 /\ IdleTimer(Top'.that))
          => /\ ~Top'.called
             /\ req' = req
             /\ timers' = timers
             /\ Regs(hw', Top'.slot) = Regs(hw, Top'.slot)
       /\ (isr # <<>> /\ ~Top.called /\ Top.that # 0
            /\ isr' # isr /\ Len(isr') <= Len(isr))
          => /\ timers' = timers
             /\ Regs(hw', Top.slot) = Regs(hw, Top.slot)
             /\ req' = req]_vars

\* the dispatcher runs on an idle timer whose armed flag is still set
C28_Witness ==
    /\ isr # <<>>
    /\ ~Top.called /\ Top.that # 0
    /\ IdleTimer(Top.that)
    /\ armed(Top.that)

\* a repeating timer: repeating and no one-shot pending
RepeatingTimer(t) == timers[t]._repeating /\ ~timers[t]._oneshot

\* C29: when the interrupt of a repeating timer fires, the dispatcher invokes
\* the timer's callback with its argument once and returns; from its entry to
\* its return it changes no field of the timer (armed, repeating, one-shot,
\* interval, callback, argument) and no register of the slot, so the
\* hardware goes on counting
C29_RepeatingFireOnlyCalls ==
    [][/\ (Platform # "T_ESP" /\ Len(isr') = Len(isr) + 1
            /\ Top'.that # 0 /\ RepeatingTimer(Top'.that))
          => /\ Top'.called
             /\ Top'.fn = timers[Top'.that]._callback
             /\ Top'.arg = timers[Top'.that]._callbackArg
             /\ req' = Invoked(Top'.slot)
             /\ timers' = timers
             /\ Regs(hw', Top'.slot) = Regs(hw, Top'.slot)
       /\ (Platform # "T_ESP" /\ isr # <<>> /\ Top.called
            /\ Top.pc = "oneshot" /\ RepeatingTimer(Top.that)
            /\ isr' # isr /\ Len(isr') <= Len(isr))
          => /\ isr' = Pop
             /\ req' = req
             /\ timers' = timers
             /\ Regs(hw', Top.slot) = Regs(hw, Top.slot)]_vars

\* the handler of a repeating, armed timer has invoked the callback for the
\* second time while the hardware goes on counting
C29_Witness ==
    /\ Platform # "T_ESP"
    /\ isr # <<>> /\ Top.called /\ Top.pc = "oneshot"
    /\ RepeatingTimer(Top.that) /\ armed(Top.that)
    /\ hwRunning(Top.slot)
    /\ req[Top.slot].calls >= 2

\* C30: on AVR, for every stored interval ms in 1 .. maximum the compare
\* register that arm() has loaded is round(ms / 1000 * F_CPU / 1024) - 1 in
\* exact arithmetic (15 for 1 ms at 16 MHz)
C30_CompareRegisterIsRounded ==
    (/\ Platform = "T_AVR" /\ Started /\ armable(mc.t)
     /\ getInterval(mc.t) \in 1 .. maximum)
        => hw[SlotOf(mc.t)].ocr =
               ((2 * getInterval(mc.t) * F_CPU_kHz + 1024) \div 2048) - 1

\* C31: on SAM, for every stored interval x > 0 the period that arm() has
\* started the DueTimer with is exactly x * 1000 microseconds: the product
\* fits 32 bits (its digits above the low 32 bits are zero) and the period is
\* that product
C31_PeriodIsExactProduct ==
    (Platform = "T_SAM" /\ Started /\ armable(mc.t)) =>
        LET x == getInterval(mc.t)
            lo == (x % 65536) * 1000
            hi == ((x \div 65536) * 1000) + (lo \div 65536)
        IN  /\ hi < 65536
            /\ hw[SlotOf(mc.t)].period = <<hi, lo % 65536>>

\* DueTimer* _DueTimers[SYST_MAX_TIMERS] = { &Timer0, ... }: the entries
\* without an initializer are null
_DueTimers(slot) ==
    LET init == IF board = "DueServo"
                THEN <<"Timer", "Timer1", "Timer6", "Timer7">>
                ELSE <<"Timer0", "Timer1", "Timer2", "Timer3", "Timer4",
                       "Timer5", "Timer6", "Timer7">>
    IN  IF slot + 1 \in DOMAIN init THEN init[slot + 1] ELSE nullptr

\* C32: the slot index of every valid SAM timer selects an existing DueTimer
\* object: its _DueTimers entry is not null, so attachInterrupt, arm and
\* disarm on the timer never go through an absent entry
C32_DueTimerEntryPresent ==
    Platform = "T_SAM" =>
        \A t \in Objects : valid(t) => _DueTimers(timers[t]._current) # nullptr

----------------------------------------------------------------------------
(* The template-based header revision (SysTimerBase<TimerType>) *)

\* if (_count + 1 < SYST_MAX_TIMERS): the capacity test of the revision
\* (_count is the revision's name of the shared counter _index)
timerAvailable_template == _index + 1 < SYST_MAX_TIMERS

\* SAMTimer::SAMTimer of the revision
SAMTimer_template ==
    /\ Platform = "T_SAM" /\ MainRuns /\ mc = Idle
    /\ Len(timers) < MaxObjects
    /\ \E p \in Indeterminate :
         LET id == Len(timers) + 1
             fresh == SysTimerBase(p)
         IN  IF timerAvailable_template
             THEN /\ timers' = Append(timers,
                        [fresh EXCEPT !._platform = "T_SAM", !._valid = TRUE,
                                      !._current = _index])
                  /\ _index' = preincrement(_index)
                  /\ table' = tableWrite(table, _index, id)
             ELSE /\ timers' = Append(timers, [fresh EXCEPT !._valid = FALSE])
                  /\ UNCHANGED <<_index, table>>
    /\ UNCHANGED <<board, hw, I, isr, mc, req>>

\* a SAM build of the revision, default configuration
InitTemplate ==
    /\ board = "Due"
    /\ _index = 0
    /\ timers = <<>>
    /\ table = [s \in Slots |-> 0]
    /\ hw = [s \in Slots |-> HwReset]
    /\ I = TRUE
    /\ isr = <<>>
    /\ mc = Idle
    /\ req = [s \in Slots |-> NoRequest]

\* the operations of the revision's SAMTimer: its constructor, and the
\* methods and handler that the revision shares with the current header
NextTemplate ==
    \/ SAMTimer_template
    \/ \E t \in Objects, i \in Intervals : setInterval(t, i)
    \/ \E t \in Objects, a \in AttachInputs : attachInterrupt(t, a[1], a[2])
    \/ attachInterrupt_arg
    \/ SAM_attachInterrupt_due
    \/ \E t \in Objects, repeat \in BOOLEAN : arm(t, repeat)
    \/ arm_oneshot_step
    \/ arm_start
    \/ arm_armed_step
    \/ arm_return
    \/ \E t \in Objects : disarm(t)
    \/ disarm_repeating_step
    \/ disarm_oneshot_step
    \/ disarm_armed_step
    \/ ReturnToCaller
    \/ \E s \in Slots : SAM_Expire(s)
    \/ \E s \in Slots : _SAMCommonHandler(s)
    \/ handler_oneshot
    \/ handler_disarm_repeating
    \/ handler_disarm_oneshot
    \/ handler_disarm_armed

TemplateSpec == InitTemplate /\ [][NextTemplate]_vars

\* C33: in the template-based revision a SAM build with capacity
\* N = SYST_MAX_TIMERS yields exactly N valid timers before the first zombie:
\* no zombie is among the first N objects, and once more than N are
\* constructed exactly N are valid
C33_TemplateYieldsNValid ==
    Platform = "T_SAM" =>
        /\ \A t \in Objects : t <= SYST_MAX_TIMERS => valid(t)
        /\ Len(timers) > SYST_MAX_TIMERS
              => Cardinality({t \in Objects : valid(t)}) = SYST_MAX_TIMERS

\* C34: a fire that invokes the callback finds a function: no handler calls
\* through a null _callback, whatever setInterval, attachInterrupt (a null
\* function on an armed timer included), arm, disarm and interrupts came
\* before
C34_NeverInvokesNull ==
    \A i \in DOMAIN isr : isr[i].called => isr[i].fn # nullptr

----------------------------------------------------------------------------
(* A callback that re-arms its own timer *)

\* the request that a callback made by calling arm(repeat) during a fire of
\* the slot, ok whether that arm() returned true; no invocation since
RequestedInCallback(slot, repeat, ok) ==
    [req EXCEPT ![slot] = [mode |-> IF repeat THEN "cb_repeat" ELSE "cb_oneshot",
                           ok |-> ok, calls |-> 0]]

\* the callback of a SAM timer calls arm(repeat) on its own timer: the whole
\* of SAMTimer::arm runs inside _SAMCommonHandler, after noInterrupts(), so
\* nothing interleaves with it
callback_arm(repeat) ==
    /\ Platform = "T_SAM"
    /\ HandlerRuns
    /\ Top.pc = "oneshot" /\ Top.called /\ Top.fn # nullptr
    /\ req[Top.slot].mode \notin {"cb_repeat", "cb_oneshot"} \/ req[Top.slot].calls > 0
    /\ LET t == Top.that
           slot == timers[t]._current
       IN  /\ IF armable(t)
              THEN /\ timers' = [timers EXCEPT ![t]._repeating = repeat,
                                               ![t]._oneshot = ~repeat,
                                               ![t]._armed = TRUE]
                   /\ hw' = DueTimer_start(hw, slot, msecToUsec(timers[t]._interval))
              ELSE /\ timers' = [timers EXCEPT ![t]._armed = FALSE]
                   /\ hw' = hw
           /\ req' = RequestedInCallback(Top.slot, repeat, armable(t))
    /\ UNCHANGED <<board, _index, table, I, isr, mc>>

\* a SAM build, default configuration
InitCallbacks ==
    /\ board = "Due"
    /\ _index = 0
    /\ timers = <<>>
    /\ table = [s \in Slots |-> 0]
    /\ hw = [s \in Slots |-> HwReset]
    /\ I = TRUE
    /\ isr = <<>>
    /\ mc = Idle
    /\ req = [s \in Slots |-> NoRequest]

\* the SAM backend with callbacks that may call arm()
NextCallbacks ==
    \/ SAMTimer
    \/ \E t \in Objects, i \in Intervals : setInterval(t, i)
    \/ \E t \in Objects, a \in AttachInputs : attachInterrupt(t, a[1], a[2])
    \/ attachInterrupt_arg
    \/ SAM_attachInterrupt_due
    \/ \E t \in Objects, repeat \in BOOLEAN : arm(t, repeat)
    \/ arm_oneshot_step
    \/ arm_start
    \/ arm_armed_step
    \/ arm_return
    \/ \E t \in Objects : disarm(t)
    \/ disarm_repeating_step
    \/ disarm_oneshot_step
    \/ disarm_armed_step
    \/ ReturnToCaller
    \/ \E s \in Slots : SAM_Expire(s)
    \/ \E s \in Slots : _SAMCommonHandler(s)
    \/ \E repeat \in BOOLEAN : callback_arm(repeat)
    \/ handler_oneshot
    \/ handler_disarm_repeating
    \/ handler_disarm_oneshot
    \/ handler_disarm_armed

CallbacksSpec == InitCallbacks /\ [][NextCallbacks]_vars

\* C35: an arm(repeat) that the timer's own callback calls and that returns
\* true takes effect like an arm() from the main context: when the interrupt
\* handler of that fire returns, the timer is armed in the requested mode
\* with the hardware counting (so that arm(false) is followed by one more
\* invocation)
C35_ArmInCallbackTakesEffect ==
    [][(/\ isr # <<>> /\ Len(isr') < Len(isr) /\ Top.called
        /\ req[Top.slot].mode \in {"cb_repeat", "cb_oneshot"}
        /\ req[Top.slot].ok /\ req[Top.slot].calls = 0)
          => LET t == Top.that IN
             /\ timers'[t]._armed
             /\ hw'[Top.slot].run
             /\ timers'[t]._repeating = (req[Top.slot].mode = "cb_repeat")
             /\ timers'[t]._oneshot = (req[Top.slot].mode = "cb_oneshot")]_vars

----------------------------------------------------------------------------
(* Independence *)

\* the hardware slot of object a as tm records it (-1: none, a zombie)
SlotIn(tm, a) == IF Platform = "T_ESP" THEN a - 1 ELSE tm[a]._current

\* the step leaves alone every constructed timer other than a, and the
\* dispatch-table entry and the registers of every slot other than slot
LeavesOthers(a, slot) ==
    /\ \A t \in Objects \ {a} : timers'[t] = timers[t]
    /\ \A s \in Slots \ {slot} :
         /\ table'[s] = table[s]
         /\ Regs(hw', s) = Regs(hw, s)

====
